---- MODULE Spec2Model ----
(***************************************************************************)
(* Ticket inventory, ticket check-in, revenue ledger and payout workflow   *)
(* of the GenPay back end.  The database collections are the state; every  *)
(* request handler is a small process that advances from one awaited       *)
(* database operation to the next, so that handlers of concurrent requests *)
(* interleave exactly where the JavaScript handlers yield.                 *)
(***************************************************************************)
EXTENDS Integers, Sequences, FiniteSets, TLC

\* ------------------------------------------------------------------ bounds
MaxTickets == 2       \* Ticket documents that may exist
MaxPayouts == 2       \* Payout documents that may exist
MaxApprovals == 2     \* PayoutApproval documents that may exist
MaxTransactions == 2  \* Transaction documents that may exist
MaxLines == 2         \* line items of one purchase request
MaxQuantity == 3      \* largest remaining quantity of a tier the model follows
MaxDebt == 600        \* the stored balance is followed down to -MaxDebt
MaxTiers == 3         \* tiers one event may have

\* ------------------------------------------------------- program constants
WithdrawalFee == 150  \* fixed fee of a payout

\* ------------------------------------------------------------- identities
Workers == {"w1", "w2"}          \* requests served at the same time
Hosts == {"h1", "h2"}
Events == {"e1", "e2"}
TierIds == {"vip", "reg"}
NoTier == "none"                 \* an identifier no tier carries
Uuids == {"u1", "u2"}            \* identifiers uuidv4() hands out
AllTierIds == TierIds \cup Uuids

\* payoutInfo of the hosts, a field being TRUE when it is set: h1 has saved complete bank
\* details, h2 all of them but the account name
payoutInfo ==
  [h \in Hosts |-> [bankName |-> TRUE, bankCode |-> TRUE, accountNumber |-> TRUE,
                    accountName |-> h = "h1"]]

VARIABLES
  events,            \* Event collection: event id -> [host, tickets (the tiers)]
  total,             \* per event and tier id: quantity set when the tier was created
  tickets,           \* Ticket collection, in insertion order; the index is the id
  transactions,      \* Transaction collection
  payouts,           \* Payout collection; the index is the id
  approvals,         \* PayoutApproval collection
  availableBalance,  \* Host.availableBalance, the stored balance
  clock,             \* the time Date.now() returns
  req,               \* per worker: the handler it runs, its position and locals
  resp               \* the response the last step sent, if it sent one

vars == <<events, total, tickets, transactions, payouts, approvals,
          availableBalance, clock, req, resp>>

db == <<events, tickets, transactions, payouts, approvals, availableBalance>>

\* ---------------------------------------------------------------- helpers
RECURSIVE Sum(_)
Sum(s) == IF s = <<>> THEN 0 ELSE Head(s) + Sum(Tail(s))

\* Array.prototype.find on event.tickets: index of the first tier with that id, 0 if none
FindTier(tiers, id) ==
  IF \E i \in 1..Len(tiers) : tiers[i].id = id
  THEN CHOOSE i \in 1..Len(tiers) :
         tiers[i].id = id /\ \A j \in 1..(i - 1) : tiers[j].id # id
  ELSE 0

NoResp == [who |-> "none", op |-> "none", code |-> 0, msg |-> "none", arg |-> 0]

\* res.status(code).json({message, ...}): worker, handler, HTTP status, message, payload
Response(w, op, code, msg, arg) ==
  [who |-> w, op |-> op, code |-> code, msg |-> msg, arg |-> arg]

\* the response of a step that sent its e-mail (mailed) or failed to send it
Notified(r, mailed) == r @@ [mailed |-> mailed]

Idle == [pc |-> "idle", ev |-> "none", host |-> "none", snap |-> <<>>, dirty |-> {},
         subtotal |-> 0, fees |-> 0, units |-> 0, tier |-> 0, lines |-> 0,
         issued |-> 0, pid |-> 0, amount |-> 0, status |-> "none", doc |-> "none",
         rev |-> 0, bal |-> 0, tk |-> 0, at |-> 0, buyer |-> "none", tid |-> "none",
         body |-> [name |-> "none", ticketType |-> "none", price |-> 0, currency |-> "none",
                   groupSize |-> [kind |-> "missing", tenths |-> 0], quantity |-> 0],
         given |-> FALSE, venue |-> FALSE,
         stored |-> [h \in Hosts |-> 0], left |-> {}, owner |-> "none",
         stats |-> [totalPayoutsToday |-> 0, pendingPayouts |-> 0, totalEarningsToday |-> 0,
                    paystackCut |-> 0, genpayCut |-> 0]]

\* what the Event collection holds for an event that was deleted: Event.findById finds
\* nothing
Absent == [host |-> "none", tickets |-> <<>>]

\* units of tickets that requests in flight still have to create
Reserved == req["w1"].units + req["w2"].units

Init ==
  /\ events = [e \in Events |->
       IF e = "e1"
       THEN [host |-> "h1",
             tickets |-> << [id |-> "vip", name |-> "VIP", price |-> 1000, quantity |-> 2],
                            [id |-> "reg", name |-> "Regular", price |-> 400, quantity |-> 1] >>]
       ELSE [host |-> "h2",
             tickets |-> << [id |-> "reg", name |-> "Regular", price |-> 400, quantity |-> 1] >>]]
  /\ total = [e \in Events |-> [t \in AllTierIds |->
       IF FindTier(events[e].tickets, t) = 0 THEN 0
       ELSE events[e].tickets[FindTier(events[e].tickets, t)].quantity]]
  /\ tickets = <<>>
  /\ transactions = <<>>
  /\ payouts = <<>>
  /\ approvals = <<>>
  /\ availableBalance = [h \in Hosts |-> 0]
  /\ clock = 1
  /\ req = [w \in Workers |-> Idle]
  /\ resp = NoResp

\* the request of worker w ends with response r
Reply(w, r) ==
  /\ req' = [req EXCEPT ![w] = Idle]
  /\ resp' = r

\* the handler of worker w goes on with locals l and sends nothing yet
Continue(w, l) ==
  /\ req' = [req EXCEPT ![w] = l]
  /\ resp' = NoResp

\* ------------------------------------------------ purchaseTicket (checkout)
\* A purchase request draws its body from an input domain
\* In = [events, lines, tiers, quantities, fees, references, ...].  The payment reference
\* is "fresh" (one the gateway never issued before), "reused" (the first one issued,
\* sent again) or "none" (missing); references are numbered in the order of their use.
Reference(kind) ==
  IF kind = "fresh" THEN Len(transactions) + 1 ELSE IF kind = "reused" THEN 1 ELSE 0

\* input validation and Event.findById
purchaseTicket_find(w, In) ==
  /\ req[w].pc = "idle"
  /\ \E e \in In.events, n \in In.lines :
       IF n = 0
       THEN /\ Reply(w, Response(w, "purchaseTicket", 400, "missing fields", 0))
            /\ UNCHANGED <<db, total, clock>>
       ELSE IF events[e] = Absent
       THEN /\ Reply(w, Response(w, "purchaseTicket", 404, "event not found", 0))
            /\ UNCHANGED <<db, total, clock>>
       ELSE /\ Len(transactions) + Cardinality({v \in Workers : req[v].pc # "idle"})
                 < MaxTransactions
            /\ Continue(w, [Idle EXCEPT !.pc = "pt_line", !.ev = e, !.lines = n,
                                         !.owner = events[e].host,
                                         !.snap = events[e].tickets])
            /\ UNCHANGED <<db, total, clock>>

\* one pass of the loop over the line items, up to the first await of the pass
purchaseTicket_line(w, In) ==
  /\ req[w].pc = "pt_line"
  /\ req[w].lines > 0
  /\ \E ticketId \in In.tiers, customer \in In.customers, quantity \in In.quantities :
       LET l == req[w]
           i == FindTier(l.snap, ticketId)
       IN  IF customer = "none"
           THEN /\ Reply(w, Response(w, "purchaseTicket", 400, "invalid line item", l.issued))
                /\ UNCHANGED <<db, total, clock>>
           ELSE IF i = 0
           THEN /\ Reply(w, Response(w, "purchaseTicket", 404, "tier not found", l.issued))
                /\ UNCHANGED <<db, total, clock>>
           ELSE IF l.snap[i].price < 0
           THEN /\ Reply(w, Response(w, "purchaseTicket", 400, "invalid price", l.issued))
                /\ UNCHANGED <<db, total, clock>>
           ELSE IF l.snap[i].quantity < quantity
           THEN /\ Reply(w, Response(w, "purchaseTicket", 400, "not enough tickets", l.issued)
                             @@ [tier |-> l.snap[i].name])
                /\ UNCHANGED <<db, total, clock>>
           ELSE /\ Len(tickets) + Reserved + quantity <= MaxTickets
                /\ l.snap[i].quantity - quantity <= MaxQuantity
                /\ Continue(w, [l EXCEPT
                      !.subtotal = @ + l.snap[i].price * quantity,
                      !.snap[i].quantity = @ - quantity,
                      !.dirty = IF quantity = 0 THEN @ ELSE @ \cup {i},
                      !.tier = i,
                      !.buyer = customer,
                      !.units = IF quantity > 0 THEN quantity ELSE 0,
                      !.lines = @ - 1,
                      !.pc = IF quantity > 0 THEN "pt_issue" ELSE "pt_line"])
                /\ UNCHANGED <<db, total, clock>>

\* one pass of the inner loop: QR code upload, then Ticket.create
purchaseTicket_issue(w) ==
  /\ req[w].pc = "pt_issue"
  /\ LET l == req[w] IN
     \/ \* the upload rejects: caught by the handler's catch
        /\ Reply(w, Response(w, "purchaseTicket", 500, "error", l.issued))
        /\ UNCHANGED <<db, total, clock>>
     \/ /\ tickets' = Append(tickets,
              [event |-> l.ev, name |-> l.snap[l.tier].name, price |-> l.snap[l.tier].price,
               quantity |-> 1, buyer |-> l.buyer, isUsed |-> FALSE, usedAt |-> 0])
        /\ Continue(w, [l EXCEPT !.units = @ - 1, !.issued = @ + 1,
                                  !.pc = IF l.units = 1 THEN "pt_line" ELSE "pt_issue"])
        /\ UNCHANGED <<events, transactions, payouts, approvals, availableBalance,
                       total, clock>>

\* mutant of SaveEvent: the quantities the handler assigned are not written
SaveEvent_unsaved(e, snap, dirty) == events

\* event.save(): $set of the tier quantities the handler assigned
SaveEvent(e, snap, dirty) ==
  [events EXCEPT ![e].tickets =
     [i \in 1..Len(@) |-> IF i \in dirty THEN [@[i] EXCEPT !.quantity = snap[i].quantity]
                          ELSE @[i]]]

\* after the last line item: total validation and event.save(), which throws
\* DocumentNotFoundError if it has quantities to write and the event was deleted meanwhile
purchaseTicket_save(w, In) ==
  /\ req[w].pc = "pt_line"
  /\ req[w].lines = 0
  /\ \E fees \in In.fees :
       LET l == req[w] IN
       IF l.subtotal + fees <= 0
       THEN /\ Reply(w, Response(w, "purchaseTicket", 400, "invalid total", l.issued))
            /\ UNCHANGED <<db, total, clock>>
       ELSE IF \/ \E i \in l.dirty : l.snap[i].quantity < 0
               \/ events[l.ev] = Absent /\ l.dirty # {}
       THEN /\ Reply(w, Response(w, "purchaseTicket", 500, "error", l.issued))
            /\ UNCHANGED <<db, total, clock>>
       ELSE /\ events' = SaveEvent(l.ev, l.snap, l.dirty)
            /\ Continue(w, [l EXCEPT !.pc = "pt_credit", !.fees = fees])
            /\ UNCHANGED <<tickets, transactions, payouts, approvals, availableBalance,
                           total, clock>>

\* Host.findByIdAndUpdate(event.host, {$inc: {availableBalance: subtotal}})
purchaseTicket_credit(w) ==
  /\ req[w].pc = "pt_credit"
  /\ LET l == req[w]
         h == l.owner
     IN  /\ availableBalance[h] + l.subtotal >= -MaxDebt
         /\ availableBalance' = [availableBalance EXCEPT ![h] = @ + l.subtotal]
         /\ Continue(w, [l EXCEPT !.pc = "pt_record"])
         /\ UNCHANGED <<events, tickets, transactions, payouts, approvals, total, clock>>

\* Transaction.create, the e-mails (failures are logged only) and the response
purchaseTicket_record(w, In) ==
  /\ req[w].pc = "pt_record"
  /\ \E kind \in In.references :
       LET l == req[w]
           reference == Reference(kind)
       IN
       IF \/ reference = 0
          \/ \E i \in 1..Len(transactions) : transactions[i].reference = reference
          \/ l.subtotal < 0 \/ l.fees < 0 \/ l.subtotal + l.fees < 0
       THEN /\ Reply(w, Response(w, "purchaseTicket", 500, "error", l.issued))
            /\ UNCHANGED <<db, total, clock>>
       ELSE /\ transactions' = Append(transactions,
                 [event |-> l.ev, reference |-> reference, amount |-> l.subtotal,
                  fees |-> l.fees, total |-> l.subtotal + l.fees, status |-> "completed"])
            /\ \E mailed \in BOOLEAN :
                 Reply(w, Notified(Response(w, "purchaseTicket", 201, "success", l.issued),
                                   mailed))
            /\ UNCHANGED <<events, tickets, payouts, approvals, availableBalance,
                           total, clock>>

purchaseTicket(w, In) ==
  \/ purchaseTicket_find(w, In)
  \/ purchaseTicket_line(w, In)
  \/ purchaseTicket_issue(w)
  \/ purchaseTicket_save(w, In)
  \/ purchaseTicket_credit(w)
  \/ purchaseTicket_record(w, In)

\* ------------------------------------------------------------ the ledger
\* Event.find({host}).distinct('_id')
HostEvents(h) == {e \in Events : events[e].host = h}

\* Ticket.find({event: {$in: evs}})
TicketsOf(evs) == SelectSeq(tickets, LAMBDA t : t.event \in evs)

\* tickets.reduce((sum, ticket) => sum + ticket.price * ticket.quantity, 0)
totalRevenue(ts) == Sum([i \in 1..Len(ts) |-> ts[i].price * ts[i].quantity])

\* the reduce of updateHostBalance, which skips a ticket with an invalid price or quantity
totalRevenueChecked(ts) ==
  Sum([i \in 1..Len(ts) |->
         IF ts[i].price < 0 \/ ts[i].quantity < 0 THEN 0 ELSE ts[i].price * ts[i].quantity])

\* mutant of totalWithdrawn: the status filter is left out of the query
totalWithdrawn_anyStatus(h) ==
  Sum([i \in 1..Len(payouts) |-> IF payouts[i].host = h THEN payouts[i].amount ELSE 0])

\* Payout.find({host, status: 'completed'}) reduced to the sum of the amounts
totalWithdrawn(h) ==
  Sum([i \in 1..Len(payouts) |->
         IF payouts[i].host = h /\ payouts[i].status = "completed"
         THEN payouts[i].amount ELSE 0])

\* mutant of PreSave: the hook forgets the fee
PreSave_forgetsFee(p) == [p EXCEPT !.netAmount = p.amount]

\* payoutSchema.pre('save'): netAmount = amount - fee
PreSave(p) == [p EXCEPT !.netAmount = p.amount - p.fee]

\* requests in flight that are at one of the positions pcs
InFlight(pcs) == Cardinality({w \in Workers : req[w].pc \in pcs})

\* -------------------------------------- updateHostBalance (getWalletData)
\* Event.find and Ticket.find of updateHostBalance(host._id)
getWalletData_tickets(w, In) ==
  /\ req[w].pc = "idle"
  /\ \E h \in In.hosts :
       Continue(w, [Idle EXCEPT !.pc = "wd_payouts", !.host = h,
                                !.rev = totalRevenueChecked(TicketsOf(HostEvents(h)))])
  /\ UNCHANGED <<db, total, clock>>

\* Payout.find({host, status: 'completed'}) and the subtraction
getWalletData_payouts(w) ==
  /\ req[w].pc = "wd_payouts"
  /\ Continue(w, [req[w] EXCEPT !.pc = "wd_write",
                                 !.bal = req[w].rev - totalWithdrawn(req[w].host)])
  /\ UNCHANGED <<db, total, clock>>

\* Host.findByIdAndUpdate(hostId, {availableBalance}, {runValidators: true}); the response
getWalletData_write(w) ==
  /\ req[w].pc = "wd_write"
  /\ LET l == req[w] IN
     IF l.bal < 0
     THEN /\ Reply(w, Response(w, "getWalletData", 500, "error", l.bal))
          /\ UNCHANGED <<db, total, clock>>
     ELSE /\ availableBalance' = [availableBalance EXCEPT ![l.host] = l.bal]
          /\ Reply(w, Response(w, "getWalletData", 200, "success", l.bal))
          /\ UNCHANGED <<events, tickets, transactions, payouts, approvals, total, clock>>

getWalletData(w, In) ==
  \/ getWalletData_tickets(w, In)
  \/ getWalletData_payouts(w)
  \/ getWalletData_write(w)

\* ------------------------------------------------------ requestWithdrawal
\* validation of the amount and of host.payoutInfo, then Event.find and Ticket.find
requestWithdrawal_tickets(w, In) ==
  /\ req[w].pc = "idle"
  /\ \E h \in In.hosts, amount \in In.amounts :
       IF amount < WithdrawalFee
       THEN Reply(w, Response(w, "requestWithdrawal", 400, "amount below fee", 0))
       ELSE IF \/ ~payoutInfo[h].bankName \/ ~payoutInfo[h].bankCode
               \/ ~payoutInfo[h].accountNumber \/ ~payoutInfo[h].accountName
       THEN Reply(w, Response(w, "requestWithdrawal", 400, "missing bank details", 0))
       ELSE /\ Len(payouts) + InFlight({"rw_payouts", "rw_create"}) < MaxPayouts
            /\ Continue(w, [Idle EXCEPT !.pc = "rw_payouts", !.host = h, !.amount = amount,
                                         !.rev = totalRevenue(TicketsOf(HostEvents(h)))])
  /\ UNCHANGED <<db, total, clock>>

\* mutant of requestWithdrawal_payouts: the amount is not compared with the balance
requestWithdrawal_payouts_unchecked(w) ==
  /\ req[w].pc = "rw_payouts"
  /\ LET l == req[w]
         availBal == l.rev - totalWithdrawn(l.host)
     IN  Continue(w, [l EXCEPT !.pc = "rw_create", !.bal = availBal])
  /\ UNCHANGED <<db, total, clock>>

\* Payout.find({host, status: 'completed'}) and the balance check
requestWithdrawal_payouts(w) ==
  /\ req[w].pc = "rw_payouts"
  /\ LET l == req[w]
         availBal == l.rev - totalWithdrawn(l.host)
     IN  IF l.amount > availBal
         THEN Reply(w, Response(w, "requestWithdrawal", 400, "insufficient balance", availBal))
         ELSE Continue(w, [l EXCEPT !.pc = "rw_create", !.bal = availBal])
  /\ UNCHANGED <<db, total, clock>>

\* mutant of requestWithdrawal_create: the request debits the stored balance at once
requestWithdrawal_create_debits(w) ==
  /\ req[w].pc = "rw_create"
  /\ LET l == req[w] IN
     /\ payouts' = Append(payouts,
            PreSave([host |-> l.host, amount |-> l.amount, fee |-> WithdrawalFee,
                     netAmount |-> l.amount - WithdrawalFee, status |-> "pending"]))
     /\ availableBalance' = [availableBalance EXCEPT ![l.host] = @ - l.amount]
     /\ Reply(w, Response(w, "requestWithdrawal", 201, "success", l.bal))
  /\ UNCHANGED <<events, tickets, transactions, approvals, total, clock>>

\* Payout.create, the e-mail and the response
requestWithdrawal_create(w) ==
  /\ req[w].pc = "rw_create"
  /\ LET l == req[w] IN
     /\ payouts' = Append(payouts,
            PreSave([host |-> l.host, amount |-> l.amount, fee |-> WithdrawalFee,
                     netAmount |-> l.amount - WithdrawalFee, status |-> "pending"]))
     /\ \E mailed \in BOOLEAN :
          Reply(w, Notified(IF mailed
                            THEN Response(w, "requestWithdrawal", 201, "success", l.bal)
                            ELSE Response(w, "requestWithdrawal", 500, "error", l.bal),
                            mailed))
  /\ UNCHANGED <<events, tickets, transactions, approvals, availableBalance, total, clock>>

requestWithdrawal(w, In) ==
  \/ requestWithdrawal_tickets(w, In)
  \/ requestWithdrawal_payouts(w)
  \/ requestWithdrawal_create(w)

\* ---------------------------------------------------------- approvePayout
SetStatus(pid, st) == [payouts EXCEPT ![pid].status = st]

\* payoutApprovalSchema.post('save'): Payout.findByIdAndUpdate(doc.payout, {status})
PostSaveHook(doc) ==
  SetStatus(doc.payout, IF doc.status = "approved" THEN "completed" ELSE doc.status)

\* input validation, Payout.findById, the pending check, the upload of the proof
approvePayout_find(w, In) ==
  /\ req[w].pc = "idle"
  /\ \E payoutId \in In.pids, approvedAmount \in In.approved :
       IF approvedAmount = 0
       THEN Reply(w, Response(w, "approvePayout", 400, "missing fields", payoutId))
       ELSE IF payoutId \notin 1..Len(payouts)
       THEN Reply(w, Response(w, "approvePayout", 404, "not found", payoutId))
       ELSE IF payouts[payoutId].status # "pending"
       THEN Reply(w, Response(w, "approvePayout", 400, "already processed", payoutId))
       ELSE \/ Reply(w, Response(w, "approvePayout", 500, "upload failed", payoutId))
            \/ /\ Len(approvals) + InFlight({"ap_create", "rj_save", "rj_create"}) < MaxApprovals
               /\ Continue(w, [Idle EXCEPT !.pc = "ap_create", !.pid = payoutId,
                                            !.amount = approvedAmount,
                                            !.host = payouts[payoutId].host,
                                            !.doc = payouts[payoutId].status])
  /\ UNCHANGED <<db, total, clock>>

\* mutant of approvePayout_create: the approval overwrites the amount of the payout with
\* the approved amount
approvePayout_create_amends(w) ==
  /\ req[w].pc = "ap_create"
  /\ LET l == req[w]
         doc == [payout |-> l.pid, approvedAmount |-> l.amount, status |-> "approved"]
     IN  /\ approvals' = Append(approvals, doc)
         /\ payouts' = [PostSaveHook(doc) EXCEPT ![l.pid].amount = l.amount]
         /\ Continue(w, [l EXCEPT !.pc = "ap_debit"])
  /\ UNCHANGED <<events, tickets, transactions, availableBalance, total, clock>>

\* PayoutApproval.create({status: 'approved'}) with its post-save hook
approvePayout_create(w) ==
  /\ req[w].pc = "ap_create"
  /\ LET l == req[w]
         doc == [payout |-> l.pid, approvedAmount |-> l.amount, status |-> "approved"]
     IN  /\ approvals' = Append(approvals, doc)
         /\ payouts' = PostSaveHook(doc)
         /\ Continue(w, [l EXCEPT !.pc = "ap_debit"])
  /\ UNCHANGED <<events, tickets, transactions, availableBalance, total, clock>>

\* Host.findByIdAndUpdate(payout.host._id, {$inc: {availableBalance: -approvedAmount}})
approvePayout_debit(w) ==
  /\ req[w].pc = "ap_debit"
  /\ LET l == req[w] IN
     /\ availableBalance[l.host] - l.amount >= -MaxDebt
     /\ availableBalance' = [availableBalance EXCEPT ![l.host] = @ - l.amount]
     /\ Continue(w, [l EXCEPT !.pc = "ap_save"])
  /\ UNCHANGED <<events, tickets, transactions, payouts, approvals, total, clock>>

\* payout.status = 'completed'; payout.save(); the e-mail and the response
approvePayout_save(w) ==
  /\ req[w].pc = "ap_save"
  /\ payouts' = [SetStatus(req[w].pid, "completed") EXCEPT ![req[w].pid] = PreSave(@)]
  /\ \E mailed \in BOOLEAN :
       Reply(w, Notified(IF mailed
                         THEN Response(w, "approvePayout", 200, "success", req[w].pid)
                         ELSE Response(w, "approvePayout", 207, "partial_success", req[w].pid),
                         mailed))
  /\ UNCHANGED <<events, tickets, transactions, approvals, availableBalance, total, clock>>

approvePayout(w, In) ==
  \/ approvePayout_find(w, In)
  \/ approvePayout_create(w)
  \/ approvePayout_debit(w)
  \/ approvePayout_save(w)

\* ----------------------------------------------------------- rejectPayout
\* input validation and Payout.findById
rejectPayout_find(w, In) ==
  /\ req[w].pc = "idle"
  /\ \E payoutId \in In.pids :
       IF payoutId \notin 1..Len(payouts)
       THEN Reply(w, Response(w, "rejectPayout", 404, "not found", payoutId))
       ELSE /\ Len(approvals) + InFlight({"ap_create", "rj_save", "rj_create"}) < MaxApprovals
            /\ Continue(w, [Idle EXCEPT !.pc = "rj_save", !.pid = payoutId,
                                         !.host = payouts[payoutId].host,
                                         !.doc = payouts[payoutId].status])
  /\ UNCHANGED <<db, total, clock>>

\* payout.status = 'rejected'; payout.save(): writes the status if the assignment changed it
rejectPayout_save(w) ==
  /\ req[w].pc = "rj_save"
  /\ payouts' = IF req[w].doc = "rejected" THEN payouts
                ELSE [SetStatus(req[w].pid, "rejected") EXCEPT ![req[w].pid] = PreSave(@)]
  /\ Continue(w, [req[w] EXCEPT !.pc = "rj_create"])
  /\ UNCHANGED <<events, tickets, transactions, approvals, availableBalance, total, clock>>

\* PayoutApproval.create({status: 'rejected'}) with its hook, the e-mail, the response
rejectPayout_create(w) ==
  /\ req[w].pc = "rj_create"
  /\ LET l == req[w]
         doc == [payout |-> l.pid, approvedAmount |-> 0, status |-> "rejected"]
     IN  /\ approvals' = Append(approvals, doc)
         /\ payouts' = PostSaveHook(doc)
         /\ \E mailed \in BOOLEAN :
              Reply(w, Notified(IF mailed
                                THEN Response(w, "rejectPayout", 200, "success", l.pid)
                                ELSE Response(w, "rejectPayout", 207, "partial_success", l.pid),
                                mailed))
  /\ UNCHANGED <<events, tickets, transactions, availableBalance, total, clock>>

rejectPayout(w, In) ==
  \/ rejectPayout_find(w, In)
  \/ rejectPayout_save(w)
  \/ rejectPayout_create(w)

\* ----------------------------------------------------- updatePayoutStatus
PayoutStatuses == {"pending", "approved", "rejected", "completed"}

\* input validation, Payout.findById; for a completion Host.findById, Event.find, Ticket.find
updatePayoutStatus_find(w, In) ==
  /\ req[w].pc = "idle"
  /\ \E payoutId \in In.pids, status \in In.statuses :
       IF status \notin PayoutStatuses
       THEN Reply(w, Response(w, "updatePayoutStatus", 400, "invalid status", payoutId))
       ELSE IF payoutId \notin 1..Len(payouts)
       THEN Reply(w, Response(w, "updatePayoutStatus", 404, "not found", payoutId))
       ELSE LET p == payouts[payoutId]
                l == [Idle EXCEPT !.pid = payoutId, !.status = status, !.host = p.host,
                                  !.amount = p.amount, !.doc = p.status]
            IN  IF status = "completed" /\ p.status # "completed"
                THEN Continue(w, [l EXCEPT !.pc = "up_payouts",
                                   !.rev = totalRevenue(TicketsOf(HostEvents(p.host)))])
                ELSE Continue(w, [l EXCEPT !.pc = "up_save"])
  /\ UNCHANGED <<db, total, clock>>

\* Payout.find({host, status: 'completed'}) and the balance check
updatePayoutStatus_payouts(w) ==
  /\ req[w].pc = "up_payouts"
  /\ LET l == req[w]
         availBal == l.rev - totalWithdrawn(l.host)
     IN  IF l.amount > availBal
         THEN Reply(w, Response(w, "updatePayoutStatus", 400, "insufficient balance", availBal))
         ELSE Continue(w, [l EXCEPT !.pc = "up_debit", !.bal = availBal])
  /\ UNCHANGED <<db, total, clock>>

\* Host.findByIdAndUpdate(host._id, {$inc: {availableBalance: -payout.amount}})
updatePayoutStatus_debit(w) ==
  /\ req[w].pc = "up_debit"
  /\ LET l == req[w] IN
     /\ availableBalance[l.host] - l.amount >= -MaxDebt
     /\ availableBalance' = [availableBalance EXCEPT ![l.host] = @ - l.amount]
     /\ Continue(w, [l EXCEPT !.pc = "up_save"])
  /\ UNCHANGED <<events, tickets, transactions, payouts, approvals, total, clock>>

\* payout.status = status; payout.save(); the e-mail of a completion; the response
updatePayoutStatus_save(w) ==
  /\ req[w].pc = "up_save"
  /\ LET l == req[w] IN
     /\ payouts' = IF l.status = l.doc THEN payouts
                   ELSE [SetStatus(l.pid, l.status) EXCEPT ![l.pid] = PreSave(@)]
     /\ \E mailed \in BOOLEAN :
          IF mailed \/ l.status # "completed"
          THEN Reply(w, Response(w, "updatePayoutStatus", 200, "success", l.pid))
          ELSE Reply(w, Response(w, "updatePayoutStatus", 500, "error", l.pid))
  /\ UNCHANGED <<events, tickets, transactions, approvals, availableBalance, total, clock>>

updatePayoutStatus(w, In) ==
  \/ updatePayoutStatus_find(w, In)
  \/ updatePayoutStatus_payouts(w)
  \/ updatePayoutStatus_debit(w)
  \/ updatePayoutStatus_save(w)

\* ---------------------------------------------------------- checkInTicket
\* the request arrives: the token is verified and Host.findById is awaited; the ticket
\* id 0 stands for a body without ticketId
checkInTicket_host(w, In) ==
  /\ req[w].pc = "idle"
  /\ \E h \in In.hosts, id \in In.events, ticketId \in In.ticketIds :
       Continue(w, [Idle EXCEPT !.pc = "ci_find", !.host = h, !.ev = id, !.tk = ticketId])
  /\ UNCHANGED <<db, total, clock>>

\* the ticketId check, Event.findById, the ownership check, Ticket.findOne, the used
\* check, and ticket.usedAt = new Date(), which is evaluated before the save is awaited
checkInTicket_find(w) ==
  /\ req[w].pc = "ci_find"
  /\ LET l == req[w] IN
       IF l.tk = 0
       THEN Reply(w, Response(w, "checkInTicket", 400, "ticket id required", l.tk))
       ELSE IF events[l.ev].host # l.host
       THEN Reply(w, Response(w, "checkInTicket", 403, "not authorized", l.tk))
       ELSE IF l.tk \notin 1..Len(tickets) \/ tickets[l.tk].event # l.ev
       THEN Reply(w, Response(w, "checkInTicket", 404, "not found", l.tk))
       ELSE IF tickets[l.tk].isUsed
       THEN Reply(w, Response(w, "checkInTicket", 400, "already used", l.tk))
       ELSE Continue(w, [l EXCEPT !.pc = "ci_save", !.at = clock])
  /\ clock' = IF req'[w].pc = "ci_save" THEN clock + 1 ELSE clock
  /\ UNCHANGED <<db, total>>

\* ticket.save() of isUsed = true and of the usedAt taken before the save; the response
checkInTicket_save(w) ==
  /\ req[w].pc = "ci_save"
  /\ tickets' = [tickets EXCEPT ![req[w].tk].isUsed = TRUE, ![req[w].tk].usedAt = req[w].at]
  /\ Reply(w, Response(w, "checkInTicket", 200, "success", req[w].tk))
  /\ UNCHANGED <<events, transactions, payouts, approvals, availableBalance, total, clock>>

checkInTicket(w, In) ==
  \/ checkInTicket_host(w, In)
  \/ checkInTicket_find(w)
  \/ checkInTicket_save(w)

\* ------------------------------------------------------------ searchTicket
\* The texts of the model, as their characters: the e-mail addresses of the buyers and
\* the search texts.
Text(s) ==
  CASE s = "ann" -> <<"a", "n", "n">>
    [] s = "joann" -> <<"j", "o", "a", "n", "n">>
    [] s = "ANN" -> <<"A", "N", "N">>
    [] s = "a.n" -> <<"a", ".", "n">>
    [] OTHER -> <<>>

\* $options: 'i'
Lower(c) == CASE c = "A" -> "a" [] c = "N" -> "n" [] OTHER -> c

\* User.find({email: {$regex: search, $options: 'i'}}): the search text is used as a
\* regular expression, unanchored and unescaped, so that it matches an address if it
\* matches at some offset, a "." of the search text matching any character; "none" is
\* the search text that is the id of a ticket, which no address matches
Matches(search, email) ==
  LET p == Text(search)
      e == Text(email)
  IN  /\ search # "none"
      /\ \E o \in 0..(Len(e) - Len(p)) :
           \A i \in 1..Len(p) : p[i] = "." \/ Lower(p[i]) = Lower(e[o + i])

\* .limit(10)
Limit == 10

\* the first Limit of the tickets a query finds
Limited(found) ==
  {k \in found : Cardinality({j \in found : j < k}) < Limit}

\* the request arrives: token, Host.findById; the search text is the id of a ticket
\* (tk), an e-mail text (buyer), or missing (neither)
searchTicket_host(w, In) ==
  /\ req[w].pc = "idle"
  /\ \E h \in In.hosts, id \in In.events, search \in In.searches :
       Continue(w, [Idle EXCEPT !.pc = "st_find", !.host = h, !.ev = id,
                                !.tk = search.id, !.buyer = search.email])
  /\ UNCHANGED <<db, total, clock>>

\* the search check, Event.findById and the ownership check
searchTicket_find(w) ==
  /\ req[w].pc = "st_find"
  /\ LET l == req[w] IN
       IF l.tk = 0 /\ l.buyer = "none"
       THEN Reply(w, Response(w, "searchTicket", 400, "search required", <<>>))
       ELSE IF events[l.ev].host # l.host
       THEN Reply(w, Response(w, "searchTicket", 403, "not authorized", <<>>))
       ELSE Continue(w, [l EXCEPT !.pc = "st_tickets"])
  /\ UNCHANGED <<db, total, clock>>

\* Ticket.find by id within the event; if empty, User.find by e-mail and Ticket.find by
\* buyer within the event; the response lists the tickets found
searchTicket_tickets(w) ==
  /\ req[w].pc = "st_tickets"
  /\ LET l == req[w]
         byId == Limited({k \in 1..Len(tickets) : tickets[k].event = l.ev /\ k = l.tk})
         byEmail == Limited({k \in 1..Len(tickets) :
                               tickets[k].event = l.ev /\ Matches(l.buyer, tickets[k].buyer)})
         found == IF byId # {} THEN byId ELSE byEmail
     IN  IF found = {}
         THEN Reply(w, Response(w, "searchTicket", 404, "not found", <<>>))
         ELSE Reply(w, Response(w, "searchTicket", 200, "success",
                  [k \in found |-> [status |-> IF tickets[k].isUsed THEN "used" ELSE "valid",
                                    usedAt |-> tickets[k].usedAt,
                                    buyer |-> tickets[k].buyer]]))
  /\ UNCHANGED <<db, total, clock>>

searchTicket(w, In) ==
  \/ searchTicket_host(w, In)
  \/ searchTicket_find(w)
  \/ searchTicket_tickets(w)

\* ---------------------------------------- tiers: addTicket, editTicket, deleteTicket
\* A tier body is [name, ticketType, price, currency, groupSize, quantity]: price and
\* currency stand for perTicketPrice and perTicketCurrency of an Individual tier and for
\* groupPrice and groupPriceCurrency of a Group tier; "none" is a missing string; groupSize
\* is missing, the text 'Unlimited Quantity', some other text, or a number, kept in tenths.
Currencies == {"USD", "NGN", "GBP", "EUR"}

Unlimited == [kind |-> "unlimited", tenths |-> 0]

\* !ticketData.groupSize || (groupSize !== 'Unlimited Quantity' &&
\* !Number.isFinite(Number(groupSize))): the number 0 is falsy, every other number passes
GroupSizeRefused(g) ==
  \/ g.kind = "missing"
  \/ (g.kind = "number" /\ g.tenths = 0)
  \/ g.kind = "text"

\* the checks of a tier body shared by addTicket and editTicket: required fields
\* (a quantity of 0 counts as missing), ticket type, price, currency and group size of
\* the type, quantity; the message of the first check that fails, "ok" if none does
ValidateTier(body) ==
  IF body.name = "none" \/ body.ticketType = "none" \/ body.quantity = 0
  THEN "missing fields"
  ELSE IF body.ticketType \notin {"Individual", "Group"} THEN "invalid type"
  ELSE IF body.price < 0 THEN "invalid price"
  ELSE IF body.currency \notin Currencies THEN "invalid currency"
  ELSE IF body.ticketType = "Group" /\ GroupSizeRefused(body.groupSize)
  THEN "invalid group size"
  ELSE IF body.quantity < 0 THEN "invalid quantity"
  ELSE "ok"

\* the tier object the handlers build from the body
NewTier(id, body) ==
  [id |-> id, name |-> body.name, price |-> body.price, quantity |-> body.quantity]

\* identifiers carried by a tier of some event or by a tier in the making
UsedTierIds ==
  UNION {{events[e].tickets[i].id : i \in 1..Len(events[e].tickets)} : e \in Events}
    \cup {req[w].tid : w \in Workers}

\* uuidv4(): an identifier nothing carries
uuidv4 == CHOOSE u \in Uuids : u \notin UsedTierIds

\* the request arrives: token, Host.findById
addTicket_host(w, In) ==
  /\ req[w].pc = "idle"
  /\ \E h \in In.hosts, id \in In.events, tid \in In.newIds, body \in In.bodies :
       Continue(w, [Idle EXCEPT !.pc = "at_find", !.host = h, !.ev = id, !.tid = tid,
                                !.body = body])
  /\ UNCHANGED <<db, total, clock>>

\* Event.findById, the ownership check, the validation, the id, event.tickets.push
addTicket_find(w) ==
  /\ req[w].pc = "at_find"
  /\ LET l == req[w] IN
       IF events[l.ev].host # l.host
       THEN Reply(w, Response(w, "addTicket", 403, "not authorized", 0))
       ELSE IF ValidateTier(l.body) # "ok"
       THEN Reply(w, Response(w, "addTicket", 400, ValidateTier(l.body), 0))
       ELSE /\ Len(events[l.ev].tickets) < MaxTiers
            /\ l.tid = NoTier => Uuids \ UsedTierIds # {}
            /\ Continue(w, [l EXCEPT !.pc = "at_save",
                                      !.tid = IF l.tid = NoTier THEN uuidv4 ELSE l.tid])
  /\ UNCHANGED <<db, total, clock>>

\* event.save() of the pushed tier, the response
addTicket_save(w) ==
  /\ req[w].pc = "at_save"
  /\ LET l == req[w] IN
       /\ events' = [events EXCEPT ![l.ev].tickets = Append(@, NewTier(l.tid, l.body))]
       /\ total' = [total EXCEPT ![l.ev][l.tid] = l.body.quantity]
       /\ Reply(w, Response(w, "addTicket", 201, "success", 0))
  /\ UNCHANGED <<tickets, transactions, payouts, approvals, availableBalance, clock>>

addTicket(w, In) ==
  \/ addTicket_host(w, In)
  \/ addTicket_find(w)
  \/ addTicket_save(w)

\* the request arrives: token, Host.findById
editTicket_host(w, In) ==
  /\ req[w].pc = "idle"
  /\ \E h \in In.hosts, id \in In.events, ticketId \in In.tiers, body \in In.bodies :
       Continue(w, [Idle EXCEPT !.pc = "et_find", !.host = h, !.ev = id, !.tid = ticketId,
                                !.body = body])
  /\ UNCHANGED <<db, total, clock>>

\* Event.findById, the ownership check, the validation, findIndex, the assignment
editTicket_find(w) ==
  /\ req[w].pc = "et_find"
  /\ LET l == req[w] IN
       IF events[l.ev].host # l.host
       THEN Reply(w, Response(w, "editTicket", 403, "not authorized", 0))
       ELSE IF ValidateTier(l.body) # "ok"
       THEN Reply(w, Response(w, "editTicket", 400, ValidateTier(l.body), 0))
       ELSE IF FindTier(events[l.ev].tickets, l.tid) = 0
       THEN Reply(w, Response(w, "editTicket", 404, "tier not found", 0))
       ELSE Continue(w, [l EXCEPT !.pc = "et_save",
                                  !.tier = FindTier(events[l.ev].tickets, l.tid)])
  /\ UNCHANGED <<db, total, clock>>

\* mutant of editTicket_save: the new price is copied to the tickets issued for the tier
editTicket_save_reprices(w) ==
  /\ req[w].pc = "et_save"
  /\ LET l == req[w] IN
       /\ l.tier <= Len(events[l.ev].tickets)
       /\ events' = [events EXCEPT ![l.ev].tickets[l.tier] = NewTier(l.tid, l.body)]
       /\ total' = [total EXCEPT ![l.ev][l.tid] = l.body.quantity]
       /\ tickets' = [k \in 1..Len(tickets) |->
            IF tickets[k].event = l.ev /\ tickets[k].name = events[l.ev].tickets[l.tier].name
            THEN [tickets[k] EXCEPT !.price = l.body.price]
            ELSE tickets[k]]
       /\ Reply(w, Response(w, "editTicket", 200, "success", 0))
  /\ UNCHANGED <<transactions, payouts, approvals, availableBalance, clock>>

\* event.save() of the assigned array element, the response
editTicket_save(w) ==
  /\ req[w].pc = "et_save"
  /\ LET l == req[w] IN
       /\ l.tier <= Len(events[l.ev].tickets)
       /\ events' = [events EXCEPT ![l.ev].tickets[l.tier] = NewTier(l.tid, l.body)]
       /\ total' = [total EXCEPT ![l.ev][l.tid] = l.body.quantity]
       /\ Reply(w, Response(w, "editTicket", 200, "success", 0))
  /\ UNCHANGED <<tickets, transactions, payouts, approvals, availableBalance, clock>>

editTicket(w, In) ==
  \/ editTicket_host(w, In)
  \/ editTicket_find(w)
  \/ editTicket_save(w)

\* the request arrives: token, Host.findById
deleteTicket_host(w, In) ==
  /\ req[w].pc = "idle"
  /\ \E h \in In.hosts, id \in In.events, ticketId \in In.tiers :
       Continue(w, [Idle EXCEPT !.pc = "dt_find", !.host = h, !.ev = id, !.tid = ticketId])
  /\ UNCHANGED <<db, total, clock>>

\* mutant of Splice: the last element is removed, whatever the index
Splice_last(tiers, i) == SubSeq(tiers, 1, Len(tiers) - 1)

\* the array without its element i
Splice(tiers, i) == [j \in 1..(Len(tiers) - 1) |-> IF j < i THEN tiers[j] ELSE tiers[j + 1]]

\* mutant of deleteTicket_find: the ownership check is left out
deleteTicket_find_anyHost(w) ==
  /\ req[w].pc = "dt_find"
  /\ LET l == req[w] IN
       IF FindTier(events[l.ev].tickets, l.tid) = 0
       THEN Reply(w, Response(w, "deleteTicket", 404, "tier not found", 0))
       ELSE Continue(w, [l EXCEPT !.pc = "dt_save",
                                  !.snap = Splice(events[l.ev].tickets,
                                                  FindTier(events[l.ev].tickets, l.tid))])
  /\ UNCHANGED <<db, total, clock>>

\* Event.findById, the ownership check, findIndex, splice
deleteTicket_find(w) ==
  /\ req[w].pc = "dt_find"
  /\ LET l == req[w] IN
       IF events[l.ev].host # l.host
       THEN Reply(w, Response(w, "deleteTicket", 403, "not authorized", 0))
       ELSE IF FindTier(events[l.ev].tickets, l.tid) = 0
       THEN Reply(w, Response(w, "deleteTicket", 404, "tier not found", 0))
       ELSE Continue(w, [l EXCEPT !.pc = "dt_save",
                                  !.snap = Splice(events[l.ev].tickets,
                                                  FindTier(events[l.ev].tickets, l.tid))])
  /\ UNCHANGED <<db, total, clock>>

\* event.save() of the spliced array, the response
deleteTicket_save(w) ==
  /\ req[w].pc = "dt_save"
  /\ events' = [events EXCEPT ![req[w].ev].tickets = req[w].snap]
  /\ Reply(w, Response(w, "deleteTicket", 200, "success", 0))
  /\ UNCHANGED <<tickets, transactions, payouts, approvals, availableBalance, total, clock>>

deleteTicket(w, In) ==
  \/ deleteTicket_host(w, In)
  \/ deleteTicket_find(w)
  \/ deleteTicket_save(w)

\* ------------------------------------------------------------- updateEvent
\* the request arrives: token, Host.findById; the body has a venue or not and a
\* ticketTiers array or not
updateEvent_host(w, In) ==
  /\ req[w].pc = "idle"
  /\ \E h \in In.hosts, id \in In.events, venue \in In.venues, tiers \in In.tierLists :
       Continue(w, [Idle EXCEPT !.pc = "ue_find", !.host = h, !.ev = id, !.venue = venue,
                                !.given = tiers.given, !.snap = tiers.list])
  /\ UNCHANGED <<db, total, clock>>

\* Event.findById(id).select('host'), the ownership check, the venue check
updateEvent_find(w) ==
  /\ req[w].pc = "ue_find"
  /\ LET l == req[w] IN
       IF events[l.ev].host # l.host
       THEN Reply(w, Response(w, "updateEvent", 403, "not authorized", 0))
       ELSE IF ~l.venue
       THEN Reply(w, Response(w, "updateEvent", 400, "venue required", 0))
       ELSE Continue(w, [l EXCEPT !.pc = "ue_save"])
  /\ UNCHANGED <<db, total, clock>>

\* Event.findByIdAndUpdate(id, {..., tickets: ticketTiers || event.tickets || []},
\* {runValidators: true}); event.tickets was not selected, so that without ticketTiers
\* the array written is empty
updateEvent_save(w) ==
  /\ req[w].pc = "ue_save"
  /\ LET l == req[w]
         tiers == IF l.given THEN l.snap ELSE <<>>
     IN  IF \E i \in 1..Len(tiers) :
              tiers[i].name = "none" \/ tiers[i].price < 0 \/ tiers[i].quantity < 0
         THEN /\ Reply(w, Response(w, "updateEvent", 400, "validation failed", 0))
              /\ UNCHANGED <<db, total, clock>>
         ELSE /\ events' = [events EXCEPT ![l.ev].tickets = tiers]
              /\ total' = [total EXCEPT ![l.ev] =
                    [t \in AllTierIds |->
                       IF FindTier(tiers, t) = 0 THEN @[t]
                       ELSE tiers[FindTier(tiers, t)].quantity]]
              /\ Reply(w, Response(w, "updateEvent", 200, "success", 0))
              /\ UNCHANGED <<tickets, transactions, payouts, approvals, availableBalance,
                             clock>>

updateEvent(w, In) ==
  \/ updateEvent_host(w, In)
  \/ updateEvent_find(w)
  \/ updateEvent_save(w)

\* ------------------------------------------------------------ deleteEvent
\* the request arrives: the token is verified and Host.findById is awaited
deleteEvent_host(w, In) ==
  /\ req[w].pc = "idle"
  /\ \E h \in In.hosts, id \in In.events :
       Continue(w, [Idle EXCEPT !.pc = "de_find", !.host = h, !.ev = id])
  /\ UNCHANGED <<db, total, clock>>

\* Event.findById(id).select('host') and the ownership check
deleteEvent_find(w) ==
  /\ req[w].pc = "de_find"
  /\ LET l == req[w] IN
       IF events[l.ev] = Absent
       THEN Reply(w, Response(w, "deleteEvent", 404, "event not found", 0))
       ELSE IF events[l.ev].host # l.host
       THEN Reply(w, Response(w, "deleteEvent", 403, "not authorized", 0))
       ELSE Continue(w, [l EXCEPT !.pc = "de_count"])
  /\ UNCHANGED <<db, total, clock>>

\* Ticket.countDocuments({event: id}) and the check for purchased tickets
deleteEvent_count(w) ==
  /\ req[w].pc = "de_count"
  /\ LET l == req[w] IN
       IF \E k \in 1..Len(tickets) : tickets[k].event = l.ev
       THEN Reply(w, Response(w, "deleteEvent", 403, "tickets purchased", 0))
       ELSE Continue(w, [l EXCEPT !.pc = "de_tickets"])
  /\ UNCHANGED <<db, total, clock>>

\* Ticket.deleteMany({event: id}): the tickets that remain keep their order
deleteEvent_tickets(w) ==
  /\ req[w].pc = "de_tickets"
  /\ tickets' = SelectSeq(tickets, LAMBDA t : t.event # req[w].ev)
  /\ Continue(w, [req[w] EXCEPT !.pc = "de_unlist"])
  /\ UNCHANGED <<events, transactions, payouts, approvals, availableBalance, total, clock>>

\* host.save() of host.events without the event; the list is no part of the state
deleteEvent_unlist(w) ==
  /\ req[w].pc = "de_unlist"
  /\ Continue(w, [req[w] EXCEPT !.pc = "de_delete"])
  /\ UNCHANGED <<db, total, clock>>

\* Event.findByIdAndDelete(id) and the response
deleteEvent_delete(w) ==
  /\ req[w].pc = "de_delete"
  /\ events' = [events EXCEPT ![req[w].ev] = Absent]
  /\ Reply(w, Response(w, "deleteEvent", 200, "success", 0))
  /\ UNCHANGED <<tickets, transactions, payouts, approvals, availableBalance, total, clock>>

deleteEvent(w, In) ==
  \/ deleteEvent_host(w, In)
  \/ deleteEvent_find(w)
  \/ deleteEvent_count(w)
  \/ deleteEvent_tickets(w)
  \/ deleteEvent_unlist(w)
  \/ deleteEvent_delete(w)

\* ------------------------------------------- getAllHostBalances, getAllHosts
\* Host.find().select('email displayName availableBalance')
getAllHostBalances_find(w) ==
  /\ req[w].pc = "idle"
  /\ Continue(w, [Idle EXCEPT !.pc = "hb_update", !.left = Hosts])
  /\ UNCHANGED <<db, total, clock>>

\* updateHostBalance(host._id) of one of the hosts, which Promise.all runs in any order:
\* the balance is recomputed from the tickets and the completed payouts and written to
\* the host with runValidators, which refuses a negative balance
getAllHostBalances_update(w) ==
  /\ req[w].pc = "hb_update"
  /\ \E h \in req[w].left :
       LET l == req[w]
           bal == totalRevenueChecked(TicketsOf(HostEvents(h))) - totalWithdrawn(h)
       IN  IF bal < 0
           THEN /\ Reply(w, Response(w, "getAllHostBalances", 500, "error", 0))
                /\ UNCHANGED <<db, total, clock>>
           ELSE /\ availableBalance' = [availableBalance EXCEPT ![h] = bal]
                /\ Continue(w, [l EXCEPT !.left = @ \ {h}, !.stored[h] = bal])
                /\ UNCHANGED <<events, tickets, transactions, payouts, approvals, total, clock>>

\* the Payout.find of the hosts and the response
getAllHostBalances_reply(w) ==
  /\ req[w].pc = "hb_update"
  /\ req[w].left = {}
  /\ Reply(w, Response(w, "getAllHostBalances", 200, "success", req[w].stored))
  /\ UNCHANGED <<db, total, clock>>

getAllHostBalances(w) ==
  \/ getAllHostBalances_find(w)
  \/ getAllHostBalances_update(w)
  \/ getAllHostBalances_reply(w)

\* events.reduce of getAllHosts: price times quantity, summed over the tiers of the events
RECURSIVE TierRevenue(_)
TierRevenue(evs) ==
  IF evs = {} THEN 0
  ELSE LET e == CHOOSE x \in evs : TRUE
       IN  Sum([i \in 1..Len(events[e].tickets) |->
                  events[e].tickets[i].price * events[e].tickets[i].quantity])
           + TierRevenue(evs \ {e})

\* Host.find().select('... availableBalance ...')
getAllHosts_find(w) ==
  /\ req[w].pc = "idle"
  /\ Continue(w, [Idle EXCEPT !.pc = "ah_stats", !.stored = availableBalance])
  /\ UNCHANGED <<db, total, clock>>

\* per host Event.find and Payout.find({status: 'completed'}); totalRevenue is taken from
\* the tiers of the events, currentBalance is host.availableBalance as Host.find read it
getAllHosts_stats(w) ==
  /\ req[w].pc = "ah_stats"
  /\ Reply(w, Response(w, "getAllHosts", 200, "success",
       [h \in Hosts |->
          [totalRevenue |-> TierRevenue(HostEvents(h)),
           totalPayouts |-> totalWithdrawn(h),
           currentBalance |-> req[w].stored[h]]]))
  /\ UNCHANGED <<db, total, clock>>

getAllHosts(w) ==
  \/ getAllHosts_find(w)
  \/ getAllHosts_stats(w)

\* ------------------------------------------- getDashboardStats (fee tiers)
\* Amounts are whole naira; fees and cuts are counted in kobo, the hundredth of a naira
\* the handler rounds the percentages to.
\*
\* Math.round((amount * 0.015) * 100) rounds a product of doubles: where 1.5% of the amount
\* ends on half a kobo the product lies just above or just below the half, and the fee is
\* the kobo above or the kobo below.  RoundsDown holds the amounts, of those the model
\* draws, whose product lies below (11 * 0.015 * 100 is 16.499999999999996).
RoundsDown == {11}

\* Math.round((amount * 0.015) * 100), in kobo
paystackPercent(amount) ==
  LET halves == 3 * amount
  IN  IF halves % 2 = 0 THEN halves \div 2
      ELSE IF amount \in RoundsDown THEN (halves - 1) \div 2
      ELSE (halves + 1) \div 2

\* Math.round((amount * 0.02) * 100), in kobo: 2% of whole naira is whole kobo
genpayPercent(amount) == 2 * amount

\* the chain of tiers with a wrong first boundary
Fees_below2499(amount) ==
  IF amount < 2499
  THEN [paystackFee |-> paystackPercent(amount), genpayFee |-> genpayPercent(amount)]
  ELSE IF amount <= 126666
  THEN [paystackFee |-> paystackPercent(amount) + 10000, genpayFee |-> genpayPercent(amount)]
  ELSE [paystackFee |-> 200000, genpayFee |-> 200000]

\* the chain of tiers: the fees of one transaction of a positive amount, in kobo
Fees(amount) ==
  IF amount <= 2499
  THEN [paystackFee |-> paystackPercent(amount), genpayFee |-> genpayPercent(amount)]
  ELSE IF amount <= 126666
  THEN [paystackFee |-> paystackPercent(amount) + 10000, genpayFee |-> genpayPercent(amount)]
  ELSE IF amount <= 399999 THEN [paystackFee |-> 200000, genpayFee |-> 200000]
  ELSE IF amount <= 599999 THEN [paystackFee |-> 200000, genpayFee |-> 300000]
  ELSE IF amount <= 1999999 THEN [paystackFee |-> 200000, genpayFee |-> 400000]
  ELSE IF amount <= 4999999 THEN [paystackFee |-> 200000, genpayFee |-> 550000]
  ELSE IF amount <= 7999999 THEN [paystackFee |-> 200000, genpayFee |-> 800000]
  ELSE [paystackFee |-> 200000, genpayFee |-> 1000000]

\* todayTransactions.forEach: what one transaction adds to the two cuts
Contribution(transaction) ==
  IF transaction.total <= 0 THEN [paystackFee |-> 0, genpayFee |-> 0]
  ELSE Fees(transaction.total)

\* Math.round of an amount of kobo, in naira
RoundNaira(kobo) == (kobo + 50) \div 100

\* the two Payout.countDocuments
getDashboardStats_payouts(w) ==
  /\ req[w].pc = "idle"
  /\ Continue(w, [Idle EXCEPT
       !.pc = "ds_transactions",
       !.stats.totalPayoutsToday =
         Cardinality({i \in 1..Len(payouts) : payouts[i].status = "completed"}),
       !.stats.pendingPayouts =
         Cardinality({i \in 1..Len(payouts) : payouts[i].status = "pending"})])
  /\ UNCHANGED <<db, total, clock>>

\* Transaction.find of the completed transactions of the day, and the two cuts
getDashboardStats_transactions(w) ==
  /\ req[w].pc = "ds_transactions"
  /\ LET todayTransactions ==
           SelectSeq(transactions, LAMBDA t : t.status = "completed")
         n == Len(todayTransactions)
     IN  Continue(w, [req[w] EXCEPT
           !.pc = "ds_reply",
           !.stats.totalEarningsToday = Sum([i \in 1..n |-> todayTransactions[i].total]),
           !.stats.paystackCut =
             Sum([i \in 1..n |-> Contribution(todayTransactions[i]).paystackFee]),
           !.stats.genpayCut =
             Sum([i \in 1..n |-> Contribution(todayTransactions[i]).genpayFee])])
  /\ UNCHANGED <<db, total, clock>>

\* the remaining counts, and the response with the rounded values
getDashboardStats_reply(w) ==
  /\ req[w].pc = "ds_reply"
  /\ LET s == req[w].stats
         netHolding == 100 * s.totalEarningsToday - s.paystackCut - s.genpayCut
     IN  Reply(w, Response(w, "getDashboardStats", 200, "success",
               [totalPayoutsToday |-> s.totalPayoutsToday,
                pendingPayouts |-> s.pendingPayouts,
                totalEarningsToday |-> s.totalEarningsToday,
                genpayCut |-> RoundNaira(s.genpayCut),
                paystackCut |-> RoundNaira(s.paystackCut),
                netHolding |-> RoundNaira(netHolding)]))
  /\ UNCHANGED <<db, total, clock>>

getDashboardStats(w) ==
  \/ getDashboardStats_payouts(w)
  \/ getDashboardStats_transactions(w)
  \/ getDashboardStats_reply(w)

\* ---------------------------------------------------------- specifications
\* The ledger, one request at a time: sales, wallet reads and withdrawal requests of the
\* hosts, and the admin actions on the payouts.
LedgerIn ==
  [events |-> Events, lines |-> {0, 1}, tiers |-> {"vip", "reg", NoTier}, quantities |-> {1},
   fees |-> {0}, references |-> {"fresh"}, customers |-> {"ann"},
   hosts |-> Hosts, amounts |-> {100, 600}, pids |-> 1..MaxPayouts, approved |-> {0, 450, 600},
   statuses |-> PayoutStatuses \cup {"none"}]

Next ==
  \/ purchaseTicket("w1", LedgerIn)
  \/ getWalletData("w1", LedgerIn)
  \/ requestWithdrawal("w1", LedgerIn)
  \/ approvePayout("w1", LedgerIn)
  \/ rejectPayout("w1", LedgerIn)
  \/ updatePayoutStatus("w1", LedgerIn)

Spec == Init /\ [][Next]_vars

\* The inventory, one request at a time: checkouts of any shape, with line items of any
\* quantity, several line items, fees and payment references of every kind.
InventoryIn ==
  [events |-> {"e1"}, lines |-> 0..MaxLines, tiers |-> {"vip", "reg", NoTier},
   quantities |-> {-1, 0, 1, 2}, fees |-> {0, 500}, references |-> {"fresh", "reused", "none"},
   customers |-> {"ann", "none"}]

NextInventory == purchaseTicket("w1", InventoryIn)

SpecInventory == Init /\ [][NextInventory]_vars

\* The requests open to a caller who holds the token of a host, one at a time: the public
\* checkout and the payout routes behind authController.protect, which admits every host.
HostRoutes(w, In) ==
  \/ purchaseTicket(w, In)
  \/ getWalletData(w, In)
  \/ requestWithdrawal(w, In)
  \/ updatePayoutStatus(w, In)

NextHost == HostRoutes("w1", LedgerIn)

SpecHost == Init /\ [][NextHost]_vars

\* Checkouts of well-formed line items (quantity at least 1), one request at a time.
PurchaseIn ==
  [events |-> Events, lines |-> 0..MaxLines, tiers |-> {"vip", "reg", NoTier},
   quantities |-> {1, 2}, fees |-> {0, 500}, references |-> {"fresh", "reused", "none"},
   customers |-> {"ann"}]

NextPurchase == purchaseTicket("w1", PurchaseIn)

SpecPurchase == Init /\ [][NextPurchase]_vars

\* Two checkouts at a time, each of one unit of one tier.
RaceIn ==
  [events |-> {"e1"}, lines |-> {1}, tiers |-> {"vip", "reg"}, quantities |-> {1},
   fees |-> {0}, references |-> {"fresh"}, customers |-> {"ann"}]

NextRace == \E w \in Workers : purchaseTicket(w, RaceIn)

SpecRace == Init /\ [][NextRace]_vars

\* Check-in at the door: one buyer connection sells tickets, two scanners check them in.
CheckInIn ==
  [events |-> Events, lines |-> {1}, tiers |-> {"vip", "reg"}, quantities |-> {1},
   fees |-> {0}, references |-> {"fresh"}, customers |-> {"ann"}, hosts |-> Hosts,
   ticketIds |-> 0..MaxTickets]

NextCheckIn ==
  \/ purchaseTicket("w1", CheckInIn)
  \/ \E w \in Workers : checkInTicket(w, CheckInIn)

SpecCheckIn == Init /\ [][NextCheckIn]_vars

\* The tiers of one event under its owner h1 and another host h2, one request at a time:
\* tiers are added, edited and deleted, the event is updated, tickets are sold, searched
\* and checked in.
TiersIn ==
  [events |-> {"e1"}, hosts |-> Hosts, lines |-> {1}, tiers |-> {"vip", "reg", NoTier},
   quantities |-> {1}, fees |-> {0}, references |-> {"fresh"}, customers |-> {"ann"},
   newIds |-> {"vip", NoTier},
   bodies |-> {[name |-> "Early", ticketType |-> "Individual", price |-> 500,
                currency |-> "NGN", groupSize |-> Unlimited, quantity |-> 2],
               [name |-> "Early", ticketType |-> "Individual", price |-> 500,
                currency |-> "NGN", groupSize |-> Unlimited, quantity |-> 0]},
   venues |-> BOOLEAN,
   tierLists |-> {[given |-> FALSE, list |-> <<>>],
                  [given |-> TRUE,
                   list |-> << [id |-> "vip", name |-> "VIP", price |-> 1000, quantity |-> 2],
                               [id |-> "vip", name |-> "Gold", price |-> 2000, quantity |-> 1] >>]},
   ticketIds |-> 0..1,
   searches |-> {[id |-> 0, email |-> "none"], [id |-> 1, email |-> "none"],
                 [id |-> 0, email |-> "ann"]}]

NextTiers ==
  \/ purchaseTicket("w1", TiersIn)
  \/ addTicket("w1", TiersIn)
  \/ editTicket("w1", TiersIn)
  \/ deleteTicket("w1", TiersIn)
  \/ updateEvent("w1", TiersIn)
  \/ searchTicket("w1", TiersIn)
  \/ checkInTicket("w1", TiersIn)

SpecTiers == Init /\ [][NextTiers]_vars

\* Tier bodies of every shape, sent by the owner of e1 to addTicket and editTicket.
GroupSizes ==
  {[kind |-> "missing", tenths |-> 0], Unlimited, [kind |-> "text", tenths |-> 0],
   [kind |-> "number", tenths |-> 0], [kind |-> "number", tenths |-> -10],
   [kind |-> "number", tenths |-> 25], [kind |-> "number", tenths |-> 30]}

BodiesIn ==
  [events |-> {"e1"}, hosts |-> {"h1"}, tiers |-> {"vip", "reg"}, newIds |-> {NoTier},
   bodies |-> [name : {"Early"}, ticketType : {"Individual", "Group", "Family"},
               price : {-1, 500}, currency : {"NGN", "XAF"}, groupSize : GroupSizes,
               quantity : {-1, 0, 2}]]

NextBodies ==
  \/ addTicket("w1", BodiesIn)
  \/ editTicket("w1", BodiesIn)

SpecBodies == Init /\ [][NextBodies]_vars

\* The dashboard of one day: the completed transactions of the day are those of sales of
\* any size, from one naira up to the highest tier, and the admin reads the dashboard.
FeeAmounts ==
  {0, 1, 11, 20, 2499, 2500, 126666, 126667, 399999, 400000, 599999, 600000,
   1999999, 2000000, 4999999, 5000000, 7999999, 8000000}

InitFees ==
  /\ Init!1 /\ Init!2 /\ Init!3
  /\ \E n \in 0..MaxTransactions : \E sold \in [1..n -> FeeAmounts] :
       transactions = [i \in 1..n |->
         [event |-> "e1", reference |-> i, amount |-> sold[i], fees |-> 0, total |-> sold[i],
          status |-> "completed"]]
  /\ payouts = <<>>
  /\ approvals = <<>>
  /\ availableBalance = [h \in Hosts |-> 0]
  /\ clock = 1
  /\ req = [w \in Workers |-> Idle]
  /\ resp = NoResp

NextFees == getDashboardStats("w1")

SpecFees == InitFees /\ [][NextFees]_vars

\* The search at the door: tickets are sold to ann and to joann, and the hosts search the
\* tickets of the events by id and by text.
SearchIn ==
  [events |-> Events, hosts |-> Hosts, lines |-> {1}, tiers |-> {"vip", "reg"},
   quantities |-> {1}, fees |-> {0}, references |-> {"fresh"}, customers |-> {"ann", "joann"},
   searches |-> {[id |-> 0, email |-> "none"], [id |-> 1, email |-> "none"],
                 [id |-> 2, email |-> "none"], [id |-> 0, email |-> "ann"],
                 [id |-> 0, email |-> "joann"], [id |-> 0, email |-> "ANN"],
                 [id |-> 0, email |-> "a.n"]}]

NextSearch ==
  \/ purchaseTicket("w1", SearchIn)
  \/ searchTicket("w1", SearchIn)

SpecSearch == Init /\ [][NextSearch]_vars

\* The balances of host h1 as they are reported: tickets of e1 are sold, h1 asks for
\* withdrawals, the admin approves them in part or in full or rejects them, and the
\* balances are read by the host and by the admin.
BalancesIn ==
  [events |-> {"e1"}, hosts |-> {"h1"}, lines |-> {1}, tiers |-> {"vip", "reg"},
   quantities |-> {1}, fees |-> {0}, references |-> {"fresh"}, customers |-> {"ann"},
   amounts |-> {600}, pids |-> 1..MaxPayouts, approved |-> {450, 600}]

NextBalances ==
  \/ purchaseTicket("w1", BalancesIn)
  \/ requestWithdrawal("w1", BalancesIn)
  \/ approvePayout("w1", BalancesIn)
  \/ rejectPayout("w1", BalancesIn)
  \/ getWalletData("w1", BalancesIn)
  \/ getAllHostBalances("w1")
  \/ getAllHosts("w1")

SpecBalances == Init /\ [][NextBalances]_vars

\* Two admins at a time: a VIP ticket of e1 is sold, h1 asks for a withdrawal of 600,
\* and two admin requests approve or reject the payout while the other is under way.
AdminsIn ==
  [events |-> {"e1"}, hosts |-> {"h1"}, lines |-> {1}, tiers |-> {"vip"},
   quantities |-> {1}, fees |-> {0}, references |-> {"fresh"}, customers |-> {"ann"},
   amounts |-> {600}, pids |-> {1}, approved |-> {600}]

NextAdmins ==
  \/ purchaseTicket("w1", AdminsIn)
  \/ requestWithdrawal("w1", AdminsIn)
  \/ \E w \in Workers : approvePayout(w, AdminsIn)
  \/ \E w \in Workers : rejectPayout(w, AdminsIn)

SpecAdmins == Init /\ [][NextAdmins]_vars

\* An event is deleted while its tickets are on sale: one connection buys tickets of the
\* events, on another the hosts delete events.
DeleteIn ==
  [events |-> Events, hosts |-> Hosts, lines |-> {1}, tiers |-> {"vip", "reg"},
   quantities |-> {1}, fees |-> {0}, references |-> {"fresh"}, customers |-> {"ann"}]

NextDelete ==
  \/ purchaseTicket("w1", DeleteIn)
  \/ deleteEvent("w2", DeleteIn)

SpecDelete == Init /\ [][NextDelete]_vars

\* ------------------------------------------------------------- properties
\* the ledger as the specification defines it, over the records themselves
GrossRevenue(h) ==
  Sum([i \in 1..Len(tickets) |->
         IF events[tickets[i].event].host = h THEN tickets[i].price * tickets[i].quantity
         ELSE 0])

CompletedPayouts(h) ==
  {i \in 1..Len(payouts) : payouts[i].host = h /\ payouts[i].status = "completed"}

RECURSIVE SumAmounts(_)
SumAmounts(ids) ==
  IF ids = {} THEN 0
  ELSE LET i == CHOOSE j \in ids : TRUE IN payouts[i].amount + SumAmounts(ids \ {i})

Withdrawn(h) == SumAmounts(CompletedPayouts(h))

BalanceOf(h) == GrossRevenue(h) - Withdrawn(h)

\* tickets issued for the tier of event e that is named as tier i of the event is
Issued(e, i) ==
  Cardinality({k \in 1..Len(tickets) :
                 tickets[k].event = e /\ tickets[k].name = events[e].tickets[i].name})

\* C1: for every host the completed payouts never sum to more than the gross ticket
\* revenue, that is, balanceOf(host) is never negative.
C1_NeverOverdrawn == \A h \in Hosts : Withdrawn(h) <= GrossRevenue(h)

\* C2: under any interleaving of purchases of one tier the tickets issued for the tier
\* never exceed the stock the tier had.
C2_NoOversell ==
  \A e \in Events : \A i \in 1..Len(events[e].tickets) :
     Issued(e, i) <= total[e][events[e].tickets[i].id]

\* C3: approvePayout records an approval (and completes the payout) only when the
\* approved amount is within balanceOf(host) at that moment.
C3_ApproveRechecksBalance ==
  [][\A w \in Workers :
       (req[w].pc = "ap_create" /\ req'[w].pc = "ap_debit")
         => req[w].amount <= BalanceOf(req[w].host)]_vars

\* C4: a check-in request returns success only for a ticket that no earlier request has
\* checked in, so that exactly one request per ticket succeeds.
C4_SingleCheckIn ==
  [][(resp'.op = "checkInTicket" /\ resp'.code = 200) => ~tickets[resp'.arg].isUsed]_vars

\* C5: in every reachable state every tier has 0 <= remaining quantity <= total quantity.
C5_StockWithinTotal ==
  \A e \in Events : \A i \in 1..Len(events[e].tickets) :
     /\ 0 <= events[e].tickets[i].quantity
     /\ events[e].tickets[i].quantity <= total[e][events[e].tickets[i].id]

\* C6: the balance computed by updateHostBalance and by requestWithdrawal equals G - W,
\* G the revenue of the tickets issued for the host's events and W the sum of the host's
\* completed payouts; pending and rejected payouts do not contribute.
C6_ComputedBalance ==
  [][\A w \in Workers :
       /\ (req[w].pc \in {"wd_payouts", "rw_payouts"} /\ req'[w].pc \in {"wd_write", "rw_create"})
            => req'[w].bal = BalanceOf(req[w].host)
       /\ (resp'.who = w /\ resp'.op = "getWalletData" /\ resp'.code = 200)
            => (resp'.arg = BalanceOf(req[w].host) /\ availableBalance'[req[w].host] = resp'.arg)
       /\ (resp'.who = w /\ resp'.op = "requestWithdrawal" /\ resp'.code = 201)
            => resp'.arg = BalanceOf(req[w].host)
       /\ (resp'.who = w /\ resp'.op = "requestWithdrawal" /\ resp'.msg = "insufficient balance")
            => resp'.arg = BalanceOf(req[w].host)]_vars

\* C6 witness: a wallet read computes a positive balance while the host has a completed,
\* a pending or rejected payout on record.
C6_Witness ==
  \E w \in Workers :
    /\ req[w].pc = "wd_write"
    /\ req[w].bal > 0
    /\ \E i, j \in 1..Len(payouts) :
         /\ payouts[i].host = req[w].host /\ payouts[i].status = "completed"
         /\ payouts[j].host = req[w].host /\ payouts[j].status \in {"pending", "rejected"}

\* C7: once a payout is completed or rejected no request changes its status again, and
\* a payout only ever leaves pending for completed or rejected.
C7_StatusLifecycle ==
  [][\A i \in 1..Len(payouts) :
       \/ payouts'[i].status = payouts[i].status
       \/ (payouts[i].status = "pending" /\ payouts'[i].status \in {"completed", "rejected"})]_vars

\* C8: a purchaseTicket request that ends in an error has issued no ticket, saved no tier
\* quantity and credited no balance.
C8_FailedPurchaseNoEffect ==
  [][(resp'.op = "purchaseTicket" /\ resp'.code >= 400)
       => (req[resp'.who].issued = 0 /\ req[resp'.who].pc \notin {"pt_credit", "pt_record"})]_vars

\* C9: approvePayout and rejectPayout on a payout that is not pending, or on an unknown
\* id, fail and leave the payouts, the approval records and the stored balance unchanged.
C9_NonPendingUntouched ==
  [][\A w \in Workers :
       /\ (req[w].pc \in {"ap_create", "ap_debit", "ap_save", "rj_save", "rj_create"}
             /\ req[w].doc # "pending")
            => UNCHANGED <<payouts, approvals, availableBalance>>
       /\ (resp'.who = w /\ resp'.op \in {"approvePayout", "rejectPayout"}
             /\ resp'.arg \in 1..Len(payouts) /\ payouts[resp'.arg].status # "pending"
             /\ req[w].pc = "idle")
            => resp'.code >= 400]_vars

\* C10: a successful requestWithdrawal adds exactly one payout, in status pending, and
\* changes neither balanceOf(host) nor the stored balance.
C10_WithdrawalReservesNothing ==
  [][\A w \in Workers :
       (resp'.who = w /\ resp'.op = "requestWithdrawal" /\ resp'.code = 201)
         => /\ Len(payouts') = Len(payouts) + 1
            /\ SubSeq(payouts', 1, Len(payouts)) = payouts
            /\ payouts'[Len(payouts')].status = "pending"
            /\ payouts'[Len(payouts')].host = req[w].host
            /\ payouts'[Len(payouts')].amount = req[w].amount
            /\ \A h \in Hosts : BalanceOf(h)' = BalanceOf(h)
            /\ availableBalance' = availableBalance
            /\ UNCHANGED <<events, tickets, transactions, approvals>>]_vars

\* C10 witness: two requests of 600 against a balance of 1,000 are both pending.
C10_Witness ==
  /\ Len(payouts) = 2
  /\ \A i \in 1..2 : payouts[i] = [host |-> "h1", amount |-> 600, fee |-> WithdrawalFee,
                                      netAmount |-> 450, status |-> "pending"]
  /\ BalanceOf("h1") = 1000
  /\ resp.op = "requestWithdrawal" /\ resp.code = 201

\* the bank details the specification requires of a host: all four fields are on file
CompleteBankDetails(h) ==
  /\ payoutInfo[h].bankName /\ payoutInfo[h].bankCode
  /\ payoutInfo[h].accountNumber /\ payoutInfo[h].accountName

\* C11: requestWithdrawal creates a payout only for an amount of at least the fee, a host
\* with complete bank details and an amount within balanceOf(host); every failing request
\* leaves the records unchanged, and the insufficient-balance failure is sent only to a
\* host whose bank details are complete and carries the computed balance.
C11_WithdrawalPreconditions ==
  [][\A w \in Workers :
       /\ req'[w].pc \in {"rw_payouts", "rw_create"}
            => (req'[w].amount >= WithdrawalFee /\ CompleteBankDetails(req'[w].host))
       /\ (req[w].pc = "rw_payouts" /\ req[w].amount > BalanceOf(req[w].host))
            => /\ resp' = Response(w, "requestWithdrawal", 400, "insufficient balance",
                                   BalanceOf(req[w].host))
               /\ req'[w].pc = "idle"
       /\ (req[w].pc = "rw_create" /\ payouts' # payouts)
            => req[w].amount <= BalanceOf(req[w].host)
       /\ (resp'.who = w /\ resp'.op = "requestWithdrawal" /\ resp'.code = 400)
            => UNCHANGED db
       /\ (resp'.who = w /\ resp'.op = "requestWithdrawal"
              /\ resp'.msg = "insufficient balance")
            => (req[w].pc = "rw_payouts" /\ CompleteBankDetails(req[w].host))]_vars

\* C11 witness: a request of 600 is refused with the computed balance of 400 that a
\* completed payout of 600 has left of a revenue of 1,000.
C11_Witness ==
  /\ resp.op = "requestWithdrawal" /\ resp.msg = "insufficient balance" /\ resp.arg = 400
  /\ \E i \in 1..Len(payouts) : payouts[i].status = "completed" /\ payouts[i].amount = 600
  /\ \A i \in 1..Len(payouts) : payouts[i].status # "pending"

\* C12: a successful approvePayout on a pending payout adds one approval entry and moves
\* the payout to completed, and balanceOf(host) drops by exactly the gross amount of the
\* payout; a successful rejectPayout on a pending payout adds one rejection entry, moves
\* the payout to rejected and leaves balanceOf of every host unchanged.
C12_ApproveRejectEffects ==
  [][\A w \in Workers :
       LET l == req[w]
           h == l.host
       IN
       /\ (l.pc = "ap_create" /\ payouts[l.pid].status = "pending")
            => /\ approvals' = Append(approvals, [payout |-> l.pid, approvedAmount |-> l.amount,
                                                  status |-> "approved"])
               /\ payouts'[l.pid].status = "completed"
               /\ BalanceOf(h)' = BalanceOf(h) - payouts[l.pid].amount
               /\ \A g \in Hosts \ {h} : BalanceOf(g)' = BalanceOf(g)
       /\ (l.pc \in {"ap_debit", "ap_save"} /\ l.doc = "pending")
            => /\ approvals' = approvals
               /\ payouts'[l.pid].status = "completed"
               /\ \A g \in Hosts : BalanceOf(g)' = BalanceOf(g)
       /\ (l.pc = "ap_save" /\ l.doc = "pending")
            => (resp'.who = w /\ resp'.op = "approvePayout" /\ resp'.code \in {200, 207})
       /\ (l.pc = "rj_save" /\ l.doc = "pending" /\ payouts[l.pid].status = "pending")
            => /\ approvals' = approvals
               /\ payouts'[l.pid].status = "rejected"
               /\ \A g \in Hosts : BalanceOf(g)' = BalanceOf(g)
       /\ (l.pc = "rj_create" /\ l.doc = "pending")
            => /\ approvals' = Append(approvals, [payout |-> l.pid, approvedAmount |-> 0,
                                                  status |-> "rejected"])
               /\ payouts'[l.pid].status = "rejected"
               /\ \A g \in Hosts : BalanceOf(g)' = BalanceOf(g)
               /\ resp'.who = w /\ resp'.op = "rejectPayout" /\ resp'.code \in {200, 207}]_vars

\* C12 witness: a payout of 600 was approved for 450 and is completed, another was
\* rejected, and balanceOf(host) is the revenue of 1,000 less the gross 600.
C12_Witness ==
  /\ resp.op = "rejectPayout" /\ resp.code = 200
  /\ \E i, j \in 1..Len(payouts) :
       /\ payouts[i].status = "completed" /\ payouts[i].amount = 600 /\ payouts[i].host = "h1"
       /\ payouts[j].status = "rejected" /\ payouts[j].host = "h1"
       /\ \E a \in 1..Len(approvals) :
            approvals[a] = [payout |-> i, approvedAmount |-> 450, status |-> "approved"]
       /\ \E a \in 1..Len(approvals) :
            approvals[a] = [payout |-> j, approvedAmount |-> 0, status |-> "rejected"]
  /\ BalanceOf("h1") = 400

\* C13: every payout record, in every reachable state, has fee = 150 and
\* netAmount = amount - fee.
C13_NetAmount ==
  \A i \in 1..Len(payouts) :
     /\ payouts[i].fee = WithdrawalFee
     /\ payouts[i].netAmount = payouts[i].amount - payouts[i].fee

\* C13 witness: a payout of 600 completed by an approval of 450, and another payout that
\* updatePayoutStatus has set to approved.
C13_Witness ==
  \E i, j \in 1..Len(payouts) :
     /\ payouts[i].status = "completed" /\ payouts[i].amount = 600
     /\ \E a \in 1..Len(approvals) :
          approvals[a].payout = i /\ approvals[a].approvedAmount = 450
     /\ payouts[j].status = "approved"
     /\ resp.op = "updatePayoutStatus" /\ resp.code = 200

\* C14: a check-in that fails as already used (400, sent for a used ticket only) or as
\* not found (404) leaves every ticket unchanged, and once a ticket is used its usedAt stays
\* the time of its first successful check-in.
C14_UsedAtFixed ==
  [][/\ (resp'.op = "checkInTicket" /\ resp'.code >= 400) => tickets' = tickets
     /\ (resp'.op = "checkInTicket" /\ resp'.msg = "already used")
          => (resp'.arg \in 1..Len(tickets) /\ tickets[resp'.arg].isUsed)
     /\ (resp'.op = "checkInTicket" /\ resp'.msg = "not found")
          => (resp'.code = 404 /\ resp'.code # 400)
     /\ \A i \in 1..Len(tickets) :
          tickets[i].isUsed => (tickets'[i].isUsed /\ tickets'[i].usedAt = tickets[i].usedAt)]_vars

\* tickets of the tier called name among those the request with locals l has created,
\* which are the last l.issued tickets when requests run one at a time
IssuedBy(l, name) ==
  Cardinality({k \in (Len(tickets) - l.issued + 1)..Len(tickets) :
                 tickets[k].event = l.ev /\ tickets[k].name = name})

\* C15: a purchase of line items (tier, q), q >= 1, creates q tickets per line item, each
\* unused and at the price of the tier, and its event.save() lowers every tier by the
\* number of tickets created for it and no other tier; the success response follows the
\* save; a line item that exceeds the remaining quantity fails with an error naming the
\* tier and creates no ticket.
C15_PurchaseEffects ==
  [][\A w \in Workers :
       LET l == req[w]
           m == req'[w]
       IN
       /\ (l.pc = "pt_line" /\ l.lines > 0 /\ m.pc # "idle")
            => /\ m.units = l.snap[m.tier].quantity - m.snap[m.tier].quantity
               /\ m.units >= 1 /\ m.pc = "pt_issue"
               /\ \A i \in 1..Len(l.snap) : i # m.tier => m.snap[i] = l.snap[i]
       /\ (l.pc = "pt_issue" /\ m.pc # "idle")
            => /\ tickets' = Append(tickets,
                     [event |-> l.ev, name |-> events[l.ev].tickets[l.tier].name,
                      price |-> events[l.ev].tickets[l.tier].price, quantity |-> 1,
                      buyer |-> l.buyer, isUsed |-> FALSE, usedAt |-> 0])
               /\ m.units = l.units - 1
               /\ m.pc = IF m.units = 0 THEN "pt_line" ELSE "pt_issue"
       /\ (l.pc = "pt_line" /\ m.pc = "pt_credit")
            => /\ \A i \in 1..Len(events[l.ev].tickets) :
                    events'[l.ev].tickets[i] =
                      [events[l.ev].tickets[i] EXCEPT
                         !.quantity = @ - IssuedBy(l, events[l.ev].tickets[i].name)]
               /\ \A e \in Events \ {l.ev} : events'[e] = events[e]
               /\ l.issued >= 1
       /\ (resp'.who = w /\ resp'.op = "purchaseTicket" /\ resp'.code = 201)
            => (l.pc = "pt_record" /\ resp'.arg = l.issued /\ UNCHANGED <<events, tickets>>)
       /\ (resp'.who = w /\ resp'.op = "purchaseTicket" /\ resp'.msg = "not enough tickets")
            => /\ \E i \in 1..Len(l.snap) :
                    l.snap[i].name = resp'.tier /\ l.snap[i].quantity < 2
               /\ UNCHANGED db]_vars

\* C15 witness: the tier with total = remaining = 2 was bought out by one purchase of 2,
\* which issued two unused tickets at its price, and a following purchase of 1 has just
\* failed naming the tier, with no ticket issued.
C15_Witness ==
  /\ resp.op = "purchaseTicket" /\ resp.msg = "not enough tickets"
  /\ resp.tier = "VIP" /\ resp.arg = 0
  /\ total["e1"]["vip"] = 2
  /\ events["e1"].tickets[1].quantity = 0
  /\ events["e1"].tickets[2].quantity = 1
  /\ Len(transactions) = 1
  /\ tickets = << [event |-> "e1", name |-> "VIP", price |-> 1000, quantity |-> 1,
                   buyer |-> "ann", isUsed |-> FALSE, usedAt |-> 0],
                  [event |-> "e1", name |-> "VIP", price |-> 1000, quantity |-> 1,
                   buyer |-> "ann", isUsed |-> FALSE, usedAt |-> 0] >>

\* C16: no purchase request raises the remaining quantity of a tier or lowers the stored
\* balance of a host, and a request never goes on past a line item of quantity below 1.
C16_QuantityAtLeastOne ==
  [][/\ \A e \in Events : \A i \in 1..Len(events[e].tickets) :
          events'[e].tickets[i].quantity <= events[e].tickets[i].quantity
     /\ \A h \in Hosts : availableBalance'[h] >= availableBalance[h]
     /\ \A w \in Workers :
          (req[w].pc = "pt_line" /\ req[w].lines > 0 /\ req'[w].pc # "idle")
            => req'[w].snap[req'[w].tier].quantity < req[w].snap[req'[w].tier].quantity]_vars

\* C17: no request that a host-authenticated caller can send changes the status of a
\* payout; a payout leaves pending through the admin actions only.
C17_HostCannotChangeStatus ==
  [][\A i \in 1..Len(payouts) : payouts'[i].status = payouts[i].status]_vars

\* the positions at which the inventory handlers have the caller and the event at hand
\* and are about to check the ownership
OwnershipChecks == {"at_find", "et_find", "dt_find", "ci_find", "st_find"}

\* the request of worker w is one of a host who does not own the event it names
ByNonOwner(w) ==
  /\ req[w].pc \in OwnershipChecks
  /\ events[req[w].ev].host # req[w].host

\* the request of worker w lacks the field its handler checks before the ownership
LacksKey(w) ==
  \/ (req[w].pc = "ci_find" /\ req[w].tk = 0)
  \/ (req[w].pc = "st_find" /\ req[w].tk = 0 /\ req[w].buyer = "none")

\* C18 (as amended): addTicket, editTicket, deleteTicket, checkInTicket and searchTicket
\* of a host who does not own the event end at once with a failure and leave the tiers
\* and the tickets unchanged; the failure is the authorization error 403, except that a
\* checkInTicket without ticketId and a searchTicket without search text get the 400 of
\* the check that precedes the ownership check.
C18_NonOwnerRefused ==
  [][\A w \in Workers :
       ByNonOwner(w)
         => /\ resp'.who = w /\ req'[w].pc = "idle"
            /\ resp'.code = IF LacksKey(w) THEN 400 ELSE 403
            /\ UNCHANGED <<events, tickets>>]_vars

\* C18 witness: the host h2 has just been refused the deletion of a tier of e1, which
\* belongs to h1 and still has the two tiers it started with, and a ticket of e1 exists.
C18_Witness ==
  /\ resp.op = "deleteTicket" /\ resp.code = 403
  /\ Len(events["e1"].tickets) = 2
  /\ events["e1"].tickets[1].id = "vip" /\ events["e1"].tickets[2].id = "reg"
  /\ Len(tickets) = 1

\* C18 as stated: every such request of a non-owner fails with the authorization error.
C18_NonOwnerAlways403 ==
  [][\A w \in Workers :
       ByNonOwner(w)
         => (resp'.who = w /\ resp'.code = 403 /\ UNCHANGED <<events, tickets>>)]_vars

\* C19: in every reachable state no two tiers of one event carry the same identifier.
C19_UniqueTierIds ==
  \A e \in Events : \A i, j \in 1..Len(events[e].tickets) :
     events[e].tickets[i].id = events[e].tickets[j].id => i = j

Acceptable(body) ==
  /\ body.ticketType \in {"Individual", "Group"}
  /\ body.price >= 0
  /\ body.currency \in {"USD", "NGN", "GBP", "EUR"}
  /\ body.ticketType = "Group"
       => \/ body.groupSize.kind = "unlimited"
          \/ /\ body.groupSize.kind = "number"
             /\ body.groupSize.tenths > 0 /\ body.groupSize.tenths % 10 = 0
  /\ body.quantity >= 0

\* C21: addTicket and editTicket of the owner, naming an existing tier in the case of an
\* edit, go on to save the tier exactly when the body is acceptable (quantity 0 included,
\* a negative or fractional group size excluded); a refused request changes no tier.
C21_AcceptedExactlyWhenValid ==
  [][\A w \in Workers :
       (/\ req[w].pc \in {"at_find", "et_find"}
        /\ events[req[w].ev].host = req[w].host
        /\ req[w].pc = "et_find" => FindTier(events[req[w].ev].tickets, req[w].tid) # 0)
         => /\ req'[w].pc \in {"at_save", "et_save"} <=> Acceptable(req[w].body)
            /\ req'[w].pc = "idle" => (resp'.code = 400 /\ events' = events)]_vars

\* ---------------------------------------------------------------- C22
\* the kobo values within half a kobo of 1.5% of an amount
C22_Percent15(a) == {k \in ((3 * a - 1) \div 2)..((3 * a + 1) \div 2) : 2 * k - 3 * a \in {-1, 0, 1}}

\* the fee pairs the tier table allows for one gross amount, in kobo
C22_Table(a) ==
  IF a <= 0 THEN {<<0, 0>>}
  ELSE IF a < 2500 THEN {<<p, 2 * a>> : p \in C22_Percent15(a)}
  ELSE IF a < 126667 THEN {<<p + 100 * 100, 2 * a>> : p \in C22_Percent15(a)}
  ELSE IF a < 400000 THEN {<<2000 * 100, 2000 * 100>>}
  ELSE IF a < 600000 THEN {<<2000 * 100, 3000 * 100>>}
  ELSE IF a < 2000000 THEN {<<2000 * 100, 4000 * 100>>}
  ELSE IF a < 5000000 THEN {<<2000 * 100, 5500 * 100>>}
  ELSE IF a < 8000000 THEN {<<2000 * 100, 8000 * 100>>}
  ELSE {<<2000 * 100, 10000 * 100>>}

\* the pairs of cuts the tier table allows for a list of transactions
RECURSIVE C22_Cuts(_)
C22_Cuts(ts) ==
  IF ts = <<>> THEN {<<0, 0>>}
  ELSE {<<f[1] + c[1], f[2] + c[2]>> : f \in C22_Table(Head(ts).total), c \in C22_Cuts(Tail(ts))}

\* C22: when the dashboard has gone through the transactions of the day, its two cuts are
\* the sums of the fees the tier table gives for each transaction: 1.5% and 2% up to 2,499,
\* 1.5% plus 100 and 2% up to 126,666, then the flat pairs; the percentages are whole kobo
\* within half a kobo of the exact percentage, no cut is negative, and a transaction of a
\* non-positive amount adds nothing.
C22_FeesFollowTable ==
  \A w \in Workers :
    req[w].pc = "ds_reply" =>
      /\ <<req[w].stats.paystackCut, req[w].stats.genpayCut>> \in C22_Cuts(transactions)
      /\ req[w].stats.paystackCut >= 0
      /\ req[w].stats.genpayCut >= 0

\* the dashboard has computed the cuts of a day with one sale of 2,499 and one of 2,500
C22_Witness ==
  /\ req["w1"].pc = "ds_reply"
  /\ Len(transactions) = 2
  /\ transactions[1].total = 2499
  /\ transactions[2].total = 2500
  /\ req["w1"].stats.paystackCut = 3749 + 13750
  /\ req["w1"].stats.genpayCut = 4998 + 5000

\* ---------------------------------------------------------------- C27
\* C27: the net holding the dashboard reports is the gross it reports minus the processor
\* cut it reports minus the platform cut it reports.
C27_ReportedNetAddsUp ==
  resp.op = "getDashboardStats" =>
    resp.arg.netHolding =
      resp.arg.totalEarningsToday - resp.arg.paystackCut - resp.arg.genpayCut

\* ---------------------------------------------------------------- C30
\* C30: of two transactions of positive amounts the dashboard has gone through, the one of
\* the larger amount is charged at least the total fee (processor plus platform) of the other.
C30_FeeNonDecreasing ==
  \A w \in Workers :
    req[w].pc = "ds_reply" =>
      \A i, j \in 1..Len(transactions) :
        (0 < transactions[i].total /\ transactions[i].total <= transactions[j].total) =>
          Contribution(transactions[i]).paystackFee + Contribution(transactions[i]).genpayFee
            <= Contribution(transactions[j]).paystackFee
                 + Contribution(transactions[j]).genpayFee

\* ---------------------------------------------------------------- C23
\* the text occurs in the e-mail address, letter case aside
C23_Contains(search, email) ==
  LET p == Text(search)
      e == Text(email)
  IN  /\ search # "none"
      /\ \E o \in 0..(Len(e) - Len(p)) : \A i \in 1..Len(p) : Lower(p[i]) = Lower(e[o + i])

\* ticket k of the searched event matches the search by its id or by the e-mail of its buyer
C23_Hit(l, k) ==
  /\ tickets[k].event = l.ev
  /\ k = l.tk \/ C23_Contains(l.buyer, tickets[k].buyer)

\* C23: searchTicket returns at most 10 tickets, each a ticket of the requested event that
\* matches the search by its identifier or by a case-insensitive substring of the e-mail
\* of its buyer, and it answers not-found only when no ticket of the event matches.
C23_SearchResults ==
  [][\A w \in Workers :
       (req[w].pc = "st_tickets" /\ resp'.who = w /\ resp'.op = "searchTicket") =>
         /\ resp'.code = 200 =>
              /\ Cardinality(DOMAIN resp'.arg) <= 10
              /\ \A k \in DOMAIN resp'.arg : k \in 1..Len(tickets) /\ C23_Hit(req[w], k)
         /\ resp'.code = 404 => \A k \in 1..Len(tickets) : ~C23_Hit(req[w], k)]_vars

\* ---------------------------------------------------------------- C24
\* C24: when the last step of purchaseTicket, requestWithdrawal, approvePayout or
\* rejectPayout has written its record and fails to send its e-mail, the record stays
\* written and the response is a partial success (207), neither a plain success nor an
\* error.
C24_MailFailureIsPartialSuccess ==
  [][\A w \in Workers :
       ( /\ req[w].pc \in {"pt_record", "rw_create", "ap_save", "rj_create"}
         /\ resp'.who = w
         /\ "mailed" \in DOMAIN resp'
         /\ ~resp'.mailed )
       => /\ req[w].pc = "pt_record" => Len(transactions') = Len(transactions) + 1
          /\ req[w].pc = "rw_create" => Len(payouts') = Len(payouts) + 1
          /\ req[w].pc = "ap_save" => payouts'[req[w].pid].status = "completed"
          /\ req[w].pc = "rj_create" => payouts'[req[w].pid].status = "rejected"
          /\ resp'.code = 207]_vars

\* ---------------------------------------------------------------- C25
\* C25: every balance reported for a host, by getWalletData, by the response of
\* requestWithdrawal, by getAllHostBalances and by getAllHosts, is the gross revenue of the
\* tickets of the host minus the amounts of its completed payouts, as the records stand
\* when the response is sent.
C25_ReportedBalanceIsRecomputed ==
  [][\A w \in Workers : \A h \in Hosts :
       (resp'.who = w /\ resp'.code \in {200, 201}) =>
         /\ (resp'.op \in {"getWalletData", "requestWithdrawal"} /\ req[w].host = h)
              => resp'.arg = BalanceOf(h)'
         /\ resp'.op = "getAllHostBalances" => resp'.arg[h] = BalanceOf(h)'
         /\ resp'.op = "getAllHosts" => resp'.arg[h].currentBalance = BalanceOf(h)']_vars

\* ---------------------------------------------------------------- C26
\* C26: no step of editTicket, deleteTicket, updateEvent, purchaseTicket, checkInTicket,
\* addTicket or searchTicket removes an issued ticket or changes its price, its event or
\* its buyer, and no step of editTicket or deleteTicket changes the balance of a host
\* (gross revenue of its tickets minus its completed payouts).
C26_IssuedTicketFixed ==
  [][/\ Len(tickets') >= Len(tickets)
     /\ \A k \in 1..Len(tickets) :
          /\ tickets'[k].price = tickets[k].price
          /\ tickets'[k].event = tickets[k].event
          /\ tickets'[k].buyer = tickets[k].buyer
     /\ \A w \in Workers :
          req[w].pc \in {"et_find", "et_save", "dt_find", "dt_save"} =>
            \A h \in Hosts : BalanceOf(h)' = BalanceOf(h)]_vars

\* a VIP ticket issued at 1000 exists and editTicket has just set the price of its tier
\* to 500
C26_Witness ==
  /\ resp.op = "editTicket"
  /\ resp.code = 200
  /\ \E k \in 1..Len(tickets) :
       /\ tickets[k].event = "e1"
       /\ tickets[k].name = "VIP"
       /\ tickets[k].price = 1000
  /\ FindTier(events["e1"].tickets, "vip") # 0
  /\ events["e1"].tickets[FindTier(events["e1"].tickets, "vip")].price = 500
  /\ BalanceOf("h1") = 1000

\* ---------------------------------------------------------------- C28
\* the approval records of payout p with the given status
C28_Records(p, st) ==
  {i \in 1..Len(approvals) : approvals[i].payout = p /\ approvals[i].status = st}

\* C28: a payout has at most one approval record with status approved, never both an
\* approved and a rejected record, and, while no purchase is under way, the stored balance
\* of a host is its gross revenue less at most one approved amount for each of its payouts
\* that has an approved record.
C28_OneDecisionPerPayout ==
  /\ \A p \in 1..Len(payouts) :
       /\ Cardinality(C28_Records(p, "approved")) <= 1
       /\ C28_Records(p, "approved") = {} \/ C28_Records(p, "rejected") = {}
  /\ (\A w \in Workers : req[w].pc \notin {"pt_line", "pt_issue", "pt_save", "pt_credit"}) =>
       \A h \in Hosts :
         availableBalance[h] >=
           GrossRevenue(h)
             - 600 * Cardinality({p \in 1..Len(payouts) :
                                    payouts[p].host = h /\ C28_Records(p, "approved") # {}})

\* ---------------------------------------------------------------- C29
\* C29: every issued ticket and every transaction refers to an event that exists, and no
\* step of deleteEvent removes a ticket or deletes an event that a ticket refers to.
C29_TicketsKeepTheirEvent ==
  [][/\ \A k \in 1..Len(tickets') : events'[tickets'[k].event] # Absent
     /\ \A i \in 1..Len(transactions') : events'[transactions'[i].event] # Absent
     /\ \A w \in Workers :
          (req[w].pc \in {"de_tickets", "de_delete"} /\ req'[w] # req[w]) =>
            /\ tickets' = tickets
            /\ \A k \in 1..Len(tickets) : tickets[k].event # req[w].ev]_vars

====
